---- MODULE Spec2Model ----
(***************************************************************************)
(* Checkout, cart, catalogue, order-status and WebSocket broadcast         *)
(* handlers of the NexChakra storefront backend (src/backend/main.py),     *)
(* over the tables of src/backend/app/models.py.                           *)
(*                                                                         *)
(* Every request runs in its own database session (Depends(get_db)) on a   *)
(* PostgreSQL store; a session's writes become visible to the other        *)
(* sessions when it commits.  A handler that issues several statements is  *)
(* modelled as one step per statement, so that the other requests          *)
(* interleave between them.  The handlers take no row lock and the         *)
(* queries ask for no order: first() returns any matching row.             *)
(*                                                                         *)
(* models.py declares columns only, no relationship(): Cart has no         *)
(* attribute items and CartItem none called product.  create_order         *)
(* therefore ends at line 302 with AttributeError for every user who has   *)
(* a row in carts, and get_user_cart at line 228; lines 305-339 of         *)
(* create_order, the call of manager.broadcast among them, are never       *)
(* reached from a request.  ProductCreate carries image_url and slug,      *)
(* which are no columns of Product: create_product and update_product      *)
(* raise before they write.  The rows of products, addresses and orders    *)
(* are therefore given: no handler inserts one.                            *)
(*                                                                         *)
(* ConnectionManager.broadcast is modelled as an operation of its own      *)
(* (SpecWs).  Money is in whole units.                                     *)
(***************************************************************************)
EXTENDS Integers, Sequences, FiniteSets, TLC

\* ----------------------------------------------------------------- bounds
MaxStock == 2
MaxOrders == 2
MaxCartItems == 2
MaxCarts == 2
MaxWishlist == 2

\* ---------------------------------------------------------------- domains
Customers == {"alice", "bob"}
Admins == {"root"}
Users == Customers \cup Admins
Products == {1, 2}
Quantities == {1, 2}
Prices == {3, 4}
\* a nullable column: <<>> is NULL, <<v>> the value v
NULL == <<>>
Discounts == {NULL, <<0>>, <<1>>}
Variants == {NULL, <<1>>}
Addresses == {1}
AddressIds == {1, 2}
Conns == {"ws1", "ws2"}
Requests == {"r1", "r2"}
AddRequests == {"a1", "a2"}
AdminRequests == {"u1", "u2"}
Broadcasts == {"b1", "b2"}
OrderStatuses == {"pending", "paid", "shipped", "delivered", "cancelled"}

VARIABLES
    products,            \* products table: id -> [stock, price, discount_price]
    carts,               \* carts table: set of rows [id, user_id]
    next_cart_id,        \* carts.id sequence
    cart_items,          \* cart_items table: set of rows
    next_item_id,        \* cart_items.id sequence
    orders,              \* orders table with its order_items: order id -> row
    co,                  \* create_order: request -> its input and its response
    wishlists,           \* wishlists table: set of rows
    next_wishlist_id,    \* wishlists.id sequence
    product_refs,        \* products that rows of product_images, product_variants,
                         \* product_attributes, reviews or stock_logs refer to
    ad,                  \* cart and wishlist requests in flight: request -> position and locals
    am,                  \* admin requests in flight: request -> position and locals
    response,            \* response of the admin request answered last
    active_connections,  \* manager.active_connections
    socket,              \* each WebSocket: "new", "open", "gone" (peer left), "closed"
    bc,                  \* the calls of manager.broadcast: call -> position and locals
    published,           \* messages handed to manager.broadcast, in order
    delivered            \* messages each socket has received, in order

vars == <<products, carts, next_cart_id, cart_items, next_item_id, orders,
          wishlists, next_wishlist_id, product_refs, co, ad, am, response,
          active_connections, socket, bc, published, delivered>>

dbvars == <<products, carts, next_cart_id, cart_items, next_item_id, orders>>
wsvars == <<active_connections, socket, bc, published, delivered>>
wishvars == <<wishlists, next_wishlist_id, product_refs>>

\* ---------------------------------------------------------------- helpers
role(u) == IF u \in Admins THEN "admin" ELSE "customer"

Range(seq) == {seq[i] : i \in DOMAIN seq}

\* the rows of carts of user u: Cart.user_id is not unique
CartsOf(u) == {c \in carts : c.user_id = u}

\* the rows of cart_items of the cart with this id
CartItemsOf(cart_id) == {ci \in cart_items : ci.cart_id = cart_id}

\* the units of product p on the lines i.. of an order
RECURSIVE LineQuantity(_, _, _)
LineQuantity(lines, p, i) ==
    IF i > Len(lines) THEN 0
    ELSE (IF lines[i].product_id = p THEN lines[i].quantity ELSE 0)
         + LineQuantity(lines, p, i + 1)

\* a row of another table refers to product p: the foreign keys
\* CartItem.product_id, OrderItem.product_id, Wishlist.product_id and those
\* of product_images, product_variants, product_attributes, reviews and
\* stock_logs
Referenced(p) ==
    \/ \E ci \in cart_items : ci.product_id = p
    \/ \E o \in DOMAIN orders : LineQuantity(orders[o].items, p, 1) > 0
    \/ \E w \in wishlists : w.product_id = p
    \/ p \in product_refs

NoCheckout == [user |-> "", address_id |-> 0, result |-> "none"]

IdleAd == [op |-> "none", pc |-> "idle", user |-> "", cart |-> 0,
           product_id |-> 0, quantity |-> 0, variant_id |-> NULL,
           item_id |-> 0, existing |-> 0, read_quantity |-> 0]

IdleAm == [op |-> "none", pc |-> "idle", user |-> "", order_id |-> 0,
           new_status |-> "", product_id |-> 0, loaded_status |-> ""]

\* status is the status of the order in the response body
NoResponse == [op |-> "none", user |-> "", order_id |-> 0, new_status |-> "",
               product_id |-> 0, result |-> "none", status |-> ""]

\* the response of an admin request about an order, about a product
OrderResponse(op, u, order_id, new_status, result, st) ==
    [NoResponse EXCEPT !.op = op, !.user = u, !.order_id = order_id,
                       !.new_status = new_status, !.result = result,
                       !.status = st]

ProductResponse(op, u, product_id, result) ==
    [NoResponse EXCEPT !.op = op, !.user = u, !.product_id = product_id,
                       !.result = result]

NoMessage == [event |-> "none", order_id |-> 0]

IdleBc == [pc |-> "idle", message |-> NoMessage, sent |-> 0, audience |-> {},
           result |-> "none"]

\* ------------------------------------------------------------------- Init
\* the tables hold the given rows; no request is in flight, no socket open
InitState(stocks, cs, items, os, refs) ==
    /\ products = [p \in Products |->
                     [stock |-> stocks[p], price |-> 3, discount_price |-> NULL]]
    /\ carts = cs
    /\ next_cart_id = Cardinality(cs) + 1
    /\ cart_items = items
    /\ next_item_id = Cardinality(items) + 1
    /\ orders = os
    /\ wishlists = {}
    /\ next_wishlist_id = 1
    /\ product_refs = refs
    /\ co = [r \in Requests |-> NoCheckout]
    /\ ad = [s \in AddRequests |-> IdleAd]
    /\ am = [s \in AdminRequests |-> IdleAm]
    /\ response = NoResponse
    /\ active_connections = <<>>
    /\ socket = [c \in Conns |-> "new"]
    /\ bc = [b \in Broadcasts |-> IdleBc]
    /\ published = <<>>
    /\ delivered = [c \in Conns |-> <<>>]

\* a catalogue with n units of every product, no cart, no order
Init == \E n \in 0..MaxStock : InitState([p \in Products |-> n], {}, {}, <<>>, {})

\* the same, only product 1 in stock
InitOne ==
    \E n \in 0..MaxStock :
        InitState([p \in Products |-> IF p = 1 THEN n ELSE 0], {}, {}, <<>>, {})

\* ----------------------------------------------------------- create_order
\* as create_order, but the cart comes from get_or_create_cart as in the
\* cart handlers
create_order_get_or_create_cart(r, u, address_id) ==
    /\ IF CartsOf(u) = {}
       THEN /\ next_cart_id <= MaxCarts
            /\ carts' = carts \cup {[id |-> next_cart_id, user_id |-> u]}
            /\ next_cart_id' = next_cart_id + 1
       ELSE UNCHANGED <<carts, next_cart_id>>
    /\ co' = [co EXCEPT ![r] = [user |-> u, address_id |-> address_id,
                                result |-> "AttributeError"]]
    /\ UNCHANGED <<products, cart_items, next_item_id, orders, ad, am, response,
                   wsvars, wishvars>>

\* as create_order, with the lines of the user's carts found through
\* CartItem.cart_id, but only an order with one of the lines is written: the
\* address and the stock are not looked at, the stock and the cart are kept
create_order_records_only(r, u, address_id) ==
    LET lines == UNION {CartItemsOf(c.id) : c \in CartsOf(u)}
    IN /\ IF lines = {}
          THEN /\ co' = [co EXCEPT ![r] = [user |-> u, address_id |-> address_id,
                                           result |-> "EmptyCart"]]
               /\ UNCHANGED orders
          ELSE /\ Len(orders) < MaxOrders
               /\ \E ci \in lines :
                     orders' = Append(orders,
                        [user_id |-> u, address_id |-> address_id,
                         total_amount |-> 3 * ci.quantity,
                         status |-> "pending", payment_status |-> "pending",
                         items |-> <<[product_id |-> ci.product_id,
                                      quantity |-> ci.quantity, price |-> 3,
                                      variant_id |-> ci.variant_id]>>])
               /\ co' = [co EXCEPT ![r] = [user |-> u, address_id |-> address_id,
                                           result |-> "ok"]]
       /\ UNCHANGED <<products, carts, next_cart_id, cart_items, next_item_id,
                      ad, am, response, wsvars, wishvars>>

\* as create_order_records_only, and the stock of the line's product is
\* decremented without the check of line 310
create_order_no_stock_check(r, u, address_id) ==
    LET lines == UNION {CartItemsOf(c.id) : c \in CartsOf(u)}
    IN /\ IF lines = {}
          THEN /\ co' = [co EXCEPT ![r] = [user |-> u, address_id |-> address_id,
                                           result |-> "EmptyCart"]]
               /\ UNCHANGED <<orders, products>>
          ELSE /\ Len(orders) < MaxOrders
               /\ \E ci \in lines :
                     /\ orders' = Append(orders,
                           [user_id |-> u, address_id |-> address_id,
                            total_amount |-> 3 * ci.quantity,
                            status |-> "pending", payment_status |-> "pending",
                            items |-> <<[product_id |-> ci.product_id,
                                         quantity |-> ci.quantity, price |-> 3,
                                         variant_id |-> ci.variant_id]>>])
                     /\ products' = [p \in DOMAIN products |->
                           IF p = ci.product_id
                           THEN [products[p] EXCEPT !.stock = @ - ci.quantity]
                           ELSE products[p]]
               /\ co' = [co EXCEPT ![r] = [user |-> u, address_id |-> address_id,
                                           result |-> "ok"]]
       /\ UNCHANGED <<carts, next_cart_id, cart_items, next_item_id,
                      ad, am, response, wsvars, wishvars>>

\* lines 301-303: the user's cart is queried; without a row the request ends
\* with 400 "Cart is empty", with a row `cart.items` raises AttributeError
\* (Cart has no such attribute) and the request ends with 500.  Nothing has
\* been written.  address_id is not looked at.
create_order(r, u, address_id) ==
    /\ co' = [co EXCEPT ![r] =
                [user |-> u, address_id |-> address_id,
                 result |-> IF CartsOf(u) = {} THEN "EmptyCart"
                            ELSE "AttributeError"]]
    /\ UNCHANGED <<dbvars, ad, am, response, wsvars, wishvars>>

\* ------------------------------------------------------ get_or_create_cart
\* where a cart request goes once it has its cart
BodyPc(op) ==
    CASE op = "add_to_cart" -> "product"
      [] op = "remove_from_cart" -> "item"
      [] op = "get_user_cart" -> "items"

\* line 212: the query for the user's cart; any of the user's rows is
\* returned, without a row the cart is to be created
get_or_create_cart(s, u, request) ==
    /\ ad[s].pc = "idle"
    /\ IF CartsOf(u) = {}
       THEN ad' = [ad EXCEPT ![s] = [request EXCEPT !.pc = "create_cart"]]
       ELSE \E cart \in CartsOf(u) :
               ad' = [ad EXCEPT ![s] = [request EXCEPT !.pc = BodyPc(request.op),
                                                       !.cart = cart.id]]

\* lines 213-217: the cart row is inserted and committed
GetOrCreateCartInsert(s) ==
    /\ ad[s].pc = "create_cart"
    /\ next_cart_id <= MaxCarts
    /\ carts' = carts \cup {[id |-> next_cart_id, user_id |-> ad[s].user]}
    /\ next_cart_id' = next_cart_id + 1
    /\ ad' = [ad EXCEPT ![s].pc = BodyPc(ad[s].op), ![s].cart = next_cart_id]
    /\ UNCHANGED <<products, cart_items, next_item_id, orders, co, am, response,
                   wsvars, wishvars>>

\* ------------------------------------------------------------ add_to_cart
\* line 241: the request begins with get_or_create_cart
add_to_cart(s, u, product_id, quantity, variant_id) ==
    /\ get_or_create_cart(s, u,
           [IdleAd EXCEPT !.op = "add_to_cart", !.user = u,
                          !.product_id = product_id, !.quantity = quantity,
                          !.variant_id = variant_id])
    /\ UNCHANGED <<dbvars, co, am, response, wsvars, wishvars>>

\* lines 244-248: the product is queried; 404 without a row, 400 when its
\* stock is below the quantity asked for
AddToCartProduct(s) ==
    /\ ad[s].pc = "product"
    /\ IF \/ ad[s].product_id \notin DOMAIN products
          \/ products[ad[s].product_id].stock < ad[s].quantity
       THEN ad' = [ad EXCEPT ![s] = IdleAd]
       ELSE ad' = [ad EXCEPT ![s].pc = "existing"]
    /\ UNCHANGED <<dbvars, co, am, response, wsvars, wishvars>>

\* lines 251-256: the query for a line of this cart and product; any such
\* line is returned
AddToCartExisting(s) ==
    /\ ad[s].pc = "existing"
    /\ LET same == {ci \in CartItemsOf(ad[s].cart) :
                       ci.product_id = ad[s].product_id}
       IN IF same = {}
          THEN ad' = [ad EXCEPT ![s].pc = "insert"]
          ELSE \E existing_item \in same :
                  /\ existing_item.quantity + ad[s].quantity <= MaxStock + 1
                  /\ ad' = [ad EXCEPT ![s].pc = "update",
                                      ![s].existing = existing_item.id,
                                      ![s].read_quantity = existing_item.quantity]
    /\ UNCHANGED <<dbvars, co, am, response, wsvars, wishvars>>

\* lines 258-259: existing_item.quantity += quantity, commit: the UPDATE sets
\* the quantity the session computed; it fails when the row is gone
AddToCartUpdate(s) ==
    /\ ad[s].pc = "update"
    /\ cart_items' = {IF ci.id = ad[s].existing
                      THEN [ci EXCEPT !.quantity = ad[s].read_quantity + ad[s].quantity]
                      ELSE ci : ci \in cart_items}
    /\ ad' = [ad EXCEPT ![s] = IdleAd]
    /\ UNCHANGED <<products, carts, next_cart_id, next_item_id, orders, co,
                   am, response, wsvars, wishvars>>

\* lines 264-271: a new cart item, commit; the INSERT takes the next id of
\* the sequence and fails on the foreign key when the product has been
\* deleted since line 244
AddToCartInsert(s) ==
    /\ ad[s].pc = "insert"
    /\ next_item_id <= MaxCartItems
    /\ IF ad[s].product_id \in DOMAIN products
       THEN cart_items' = cart_items \cup
                   {[id |-> next_item_id, cart_id |-> ad[s].cart,
                     product_id |-> ad[s].product_id,
                     quantity |-> ad[s].quantity,
                     variant_id |-> ad[s].variant_id]}
       ELSE UNCHANGED cart_items
    /\ next_item_id' = next_item_id + 1
    /\ ad' = [ad EXCEPT ![s] = IdleAd]
    /\ UNCHANGED <<products, carts, next_cart_id, orders, co, am, response,
                   wsvars, wishvars>>

\* ------------------------------------------------------- remove_from_cart
\* line 281: the request begins with get_or_create_cart
remove_from_cart(s, u, item_id) ==
    /\ get_or_create_cart(s, u,
           [IdleAd EXCEPT !.op = "remove_from_cart", !.user = u,
                          !.item_id = item_id])
    /\ UNCHANGED <<dbvars, co, am, response, wsvars, wishvars>>

\* lines 282-288: the query for the item in this cart; 404 without a row
RemoveFromCartItem(s) ==
    /\ ad[s].pc = "item"
    /\ IF \E ci \in CartItemsOf(ad[s].cart) : ci.id = ad[s].item_id
       THEN ad' = [ad EXCEPT ![s].pc = "delete"]
       ELSE ad' = [ad EXCEPT ![s] = IdleAd]
    /\ UNCHANGED <<dbvars, co, am, response, wsvars, wishvars>>

\* lines 290-291: the row is deleted, commit
RemoveFromCartDelete(s) ==
    /\ ad[s].pc = "delete"
    /\ cart_items' = {ci \in cart_items : ci.id # ad[s].item_id}
    /\ ad' = [ad EXCEPT ![s] = IdleAd]
    /\ UNCHANGED <<products, carts, next_cart_id, next_item_id, orders, co,
                   am, response, wsvars, wishvars>>

\* ---------------------------------------------------------- get_user_cart
\* line 224: the request begins with get_or_create_cart
get_user_cart(s, u) ==
    /\ get_or_create_cart(s, u,
           [IdleAd EXCEPT !.op = "get_user_cart", !.user = u])
    /\ UNCHANGED <<dbvars, co, am, response, wsvars, wishvars>>

\* line 228: `cart.items` raises AttributeError; the cart stays
GetUserCartItems(s) ==
    /\ ad[s].pc = "items"
    /\ ad' = [ad EXCEPT ![s] = IdleAd]
    /\ UNCHANGED <<dbvars, co, am, response, wsvars, wishvars>>

\* -------------------------------------------------------- toggle_wishlist
\* lines 467-469: the product is queried; 404 without a row
toggle_wishlist(s, u, product_id) ==
    /\ ad[s].pc = "idle"
    /\ IF product_id \notin DOMAIN products
       THEN UNCHANGED ad
       ELSE ad' = [ad EXCEPT ![s] =
                      [IdleAd EXCEPT !.op = "toggle_wishlist", !.pc = "wishlist_item",
                                     !.user = u, !.product_id = product_id]]
    /\ UNCHANGED <<dbvars, co, am, response, wsvars, wishvars>>

\* lines 471-474: the query for a row of this user and product; any such row
\* is returned
ToggleWishlistItem(s) ==
    /\ ad[s].pc = "wishlist_item"
    /\ LET same == {w \in wishlists : /\ w.user_id = ad[s].user
                                      /\ w.product_id = ad[s].product_id}
       IN IF same = {}
          THEN ad' = [ad EXCEPT ![s].pc = "wishlist_insert"]
          ELSE \E wishlist_item \in same :
                  ad' = [ad EXCEPT ![s].pc = "wishlist_delete",
                                   ![s].existing = wishlist_item.id]
    /\ UNCHANGED <<dbvars, co, am, response, wsvars, wishvars>>

\* lines 476-479: the row is deleted, commit
ToggleWishlistDelete(s) ==
    /\ ad[s].pc = "wishlist_delete"
    /\ wishlists' = {w \in wishlists : w.id # ad[s].existing}
    /\ ad' = [ad EXCEPT ![s] = IdleAd]
    /\ UNCHANGED <<dbvars, next_wishlist_id, product_refs, co, am, response,
                   wsvars>>

\* lines 481-484: a new row, commit; the INSERT takes the next id of the
\* sequence and fails on the foreign key when the product has been deleted
\* since line 467
ToggleWishlistInsert(s) ==
    /\ ad[s].pc = "wishlist_insert"
    /\ next_wishlist_id <= MaxWishlist
    /\ IF ad[s].product_id \in DOMAIN products
       THEN wishlists' = wishlists \cup
                {[id |-> next_wishlist_id, user_id |-> ad[s].user,
                  product_id |-> ad[s].product_id]}
       ELSE UNCHANGED wishlists
    /\ next_wishlist_id' = next_wishlist_id + 1
    /\ ad' = [ad EXCEPT ![s] = IdleAd]
    /\ UNCHANGED <<dbvars, product_refs, co, am, response, wsvars>>

\* ------------------------------------------------------ get_current_admin
\* as get_current_admin, without the role check
get_current_user_only(u) == u \in Users

\* lines 45-52
get_current_admin(u) == role(u) = "admin"

\* ---------------------------------------------------- update_order_status
\* lines 443-449: 403 for a user who is not an admin; the order is queried,
\* 404 without a row; else the request holds the row it has loaded
update_order_status(s, u, order_id, new_status) ==
    /\ am[s].pc = "idle"
    /\ IF ~get_current_admin(u)
       THEN /\ response' = OrderResponse("update_order_status", u, order_id,
                                         new_status, "Forbidden", "")
            /\ UNCHANGED am
       ELSE IF order_id \notin DOMAIN orders
       THEN /\ response' = OrderResponse("update_order_status", u, order_id,
                                         new_status, "NotFound", "")
            /\ UNCHANGED am
       ELSE /\ am' = [am EXCEPT ![s] =
                        [IdleAm EXCEPT !.op = "update_order_status",
                                       !.pc = "write", !.user = u,
                                       !.order_id = order_id,
                                       !.new_status = new_status,
                                       !.loaded_status = orders[order_id].status]]
            /\ UNCHANGED response
    /\ UNCHANGED <<dbvars, co, ad, wsvars, wishvars>>

\* as UpdateOrderStatusWrite, but the prices of the order's lines are taken
\* from the catalogue again
UpdateOrderStatusWriteReprices(s) ==
    /\ am[s].pc = "write"
    /\ LET lines == orders[am[s].order_id].items
       IN orders' = [orders EXCEPT ![am[s].order_id] =
              [@ EXCEPT !.status = am[s].new_status,
                        !.items = [i \in DOMAIN lines |->
                            [lines[i] EXCEPT !.price =
                                products[lines[i].product_id].price]]]]
    /\ am' = [am EXCEPT ![s].pc = "refresh"]
    /\ UNCHANGED <<products, carts, next_cart_id, cart_items, next_item_id,
                   co, ad, response, wsvars, wishvars>>

\* lines 451-452: order.status = new_status, commit; the UPDATE is issued
\* only when new_status differs from the status the request has loaded
UpdateOrderStatusWrite(s) ==
    /\ am[s].pc = "write"
    /\ IF am[s].new_status # am[s].loaded_status
       THEN orders' = [orders EXCEPT ![am[s].order_id].status = am[s].new_status]
       ELSE UNCHANGED orders
    /\ am' = [am EXCEPT ![s].pc = "refresh"]
    /\ UNCHANGED <<products, carts, next_cart_id, cart_items, next_item_id,
                   co, ad, response, wsvars, wishvars>>

\* lines 453-454: the row is read again and returned
UpdateOrderStatusRefresh(s) ==
    /\ am[s].pc = "refresh"
    /\ response' = OrderResponse("update_order_status", am[s].user,
                                 am[s].order_id, am[s].new_status, "ok",
                                 orders[am[s].order_id].status)
    /\ am' = [am EXCEPT ![s] = IdleAm]
    /\ UNCHANGED <<dbvars, co, ad, wsvars, wishvars>>

\* -------------------------------------------------------------- catalogue
\* lines 158-172: Product(**product_data) is given image_url and slug, which
\* Product does not have, and raises TypeError; nothing is written
create_product(u, price, discount_price, stock) ==
    /\ response' = ProductResponse("create_product", u, 0,
                       IF ~get_current_admin(u) THEN "Forbidden"
                       ELSE "TypeError")
    /\ UNCHANGED <<dbvars, co, ad, am, wsvars, wishvars>>

\* lines 174-189: 404 without the product; else the UPDATE is given the keys
\* image_url and slug, which are no columns of products, and is refused
\* before it is sent; nothing is written
update_product(u, product_id, price, discount_price, stock) ==
    /\ response' = ProductResponse("update_product", u, product_id,
                       IF ~get_current_admin(u) THEN "Forbidden"
                       ELSE IF product_id \notin DOMAIN products THEN "NotFound"
                       ELSE "CompileError")
    /\ UNCHANGED <<dbvars, co, ad, am, wsvars, wishvars>>

\* lines 196-199: 403 for a user who is not an admin; the product is
\* queried, 404 without a row
delete_product(s, u, product_id) ==
    /\ am[s].pc = "idle"
    /\ IF ~get_current_admin(u)
       THEN /\ response' = ProductResponse("delete_product", u, product_id,
                                           "Forbidden")
            /\ UNCHANGED am
       ELSE IF product_id \notin DOMAIN products
       THEN /\ response' = ProductResponse("delete_product", u, product_id,
                                           "NotFound")
            /\ UNCHANGED am
       ELSE /\ am' = [am EXCEPT ![s] =
                        [IdleAm EXCEPT !.op = "delete_product", !.pc = "delete",
                                       !.user = u, !.product_id = product_id]]
            /\ UNCHANGED response
    /\ UNCHANGED <<dbvars, co, ad, wsvars, wishvars>>

\* lines 201-203: DELETE, commit; refused when a row of another table refers
\* to the product (foreign key); a DELETE that finds the row gone is answered
\* like one that removed it
DeleteProductDelete(s) ==
    /\ am[s].pc = "delete"
    /\ IF Referenced(am[s].product_id)
       THEN /\ response' = ProductResponse("delete_product", am[s].user,
                                           am[s].product_id, "IntegrityError")
            /\ UNCHANGED products
       ELSE /\ response' = ProductResponse("delete_product", am[s].user,
                                           am[s].product_id, "ok")
            /\ products' = [p \in DOMAIN products \ {am[s].product_id} |->
                               products[p]]
    /\ am' = [am EXCEPT ![s] = IdleAm]
    /\ UNCHANGED <<carts, next_cart_id, cart_items, next_item_id, orders,
                   co, ad, wsvars, wishvars>>

\* ------------------------------------------------------ ConnectionManager
\* lines 15-17, reached from websocket_endpoint line 502
connect(websocket) ==
    /\ socket[websocket] = "new"
    /\ socket' = [socket EXCEPT ![websocket] = "open"]
    /\ active_connections' = Append(active_connections, websocket)
    /\ UNCHANGED <<dbvars, wishvars, co, ad, am, response, bc, published,
                   delivered>>

\* the peer leaves; the server has not yet processed the disconnect
PeerGone(websocket) ==
    /\ socket[websocket] = "open"
    /\ socket' = [socket EXCEPT ![websocket] = "gone"]
    /\ UNCHANGED <<dbvars, wishvars, co, ad, am, response, active_connections,
                   bc, published, delivered>>

\* lines 19-20, reached from websocket_endpoint lines 506-507
disconnect(websocket) ==
    /\ socket[websocket] = "gone"
    /\ socket' = [socket EXCEPT ![websocket] = "closed"]
    /\ active_connections' = SelectSeq(active_connections,
                                       LAMBDA c : c # websocket)
    /\ UNCHANGED <<dbvars, wishvars, co, ad, am, response, bc, published,
                   delivered>>

\* lines 23-24: the loop of call b goes on at index sent + 1 of
\* active_connections: past the end of the list broadcast returns; send_json
\* to a socket whose peer has gone raises, and broadcast has no handler;
\* else the message is sent and the call is suspended in send_json
BroadcastStep(b, call) ==
    IF call.sent >= Len(active_connections)
    THEN /\ bc' = [bc EXCEPT ![b] = [IdleBc EXCEPT !.result = "ok"]]
         /\ UNCHANGED delivered
    ELSE LET connection == active_connections[call.sent + 1]
         IN IF socket[connection] = "gone"
            THEN /\ bc' = [bc EXCEPT ![b] = [IdleBc EXCEPT !.result = "SendError"]]
                 /\ UNCHANGED delivered
            ELSE /\ delivered' = [delivered EXCEPT ![connection] =
                                     Append(@, call.message)]
                 /\ bc' = [bc EXCEPT ![b] = [call EXCEPT !.sent = @ + 1]]

\* line 22: broadcast is called with a message and runs to its first
\* send_json; audience records the connections registered at that moment
broadcast(b, message) ==
    /\ bc[b].pc = "idle"
    /\ Len(published) < MaxOrders
    /\ published' = Append(published, message)
    /\ BroadcastStep(b, [IdleBc EXCEPT !.pc = "send", !.message = message,
                                       !.audience = Range(active_connections)])
    /\ UNCHANGED <<dbvars, wishvars, co, ad, am, response, active_connections,
                   socket>>

\* lines 23-24: send_json has returned and the loop goes on
BroadcastSend(b) ==
    /\ bc[b].pc = "send"
    /\ BroadcastStep(b, bc[b])
    /\ UNCHANGED <<dbvars, wishvars, co, ad, am, response, active_connections,
                   socket, published>>

\* ---------------------------------------------------------- specifications
\* create_order by the requests R of the users U
Checkout(R, U) ==
    \E r \in R, u \in U, a \in AddressIds : create_order(r, u, a)

\* add_to_cart by the requests S of the users U, for quantities Q of the
\* products P, no variant chosen
AddOps(S, U, P, Q) ==
    \/ \E s \in S, u \in U, p \in P, q \in Q : add_to_cart(s, u, p, q, NULL)
    \/ \E s \in S : AddToCartProduct(s)
    \/ \E s \in S : AddToCartExisting(s)
    \/ \E s \in S : AddToCartUpdate(s)
    \/ \E s \in S : AddToCartInsert(s)

RemoveOps(S, U, I) ==
    \/ \E s \in S, u \in U, i \in I : remove_from_cart(s, u, i)
    \/ \E s \in S : RemoveFromCartItem(s)
    \/ \E s \in S : RemoveFromCartDelete(s)

GetOps(S, U) ==
    \/ \E s \in S, u \in U : get_user_cart(s, u)
    \/ \E s \in S : GetUserCartItems(s)

WishlistOps(S, U, P) ==
    \/ \E s \in S, u \in U, p \in P : toggle_wishlist(s, u, p)
    \/ \E s \in S : ToggleWishlistItem(s)
    \/ \E s \in S : ToggleWishlistDelete(s)
    \/ \E s \in S : ToggleWishlistInsert(s)

\* update_order_status by the requests S of the users U, for the orders O and
\* the statuses St
StatusOps(S, U, O, St) ==
    \/ \E s \in S, u \in U, o \in O, st \in St : update_order_status(s, u, o, st)
    \/ \E s \in S : UpdateOrderStatusWrite(s)
    \/ \E s \in S : UpdateOrderStatusRefresh(s)

DeleteOps(S, U, P) ==
    \/ \E s \in S, u \in U, p \in P : delete_product(s, u, p)
    \/ \E s \in S : DeleteProductDelete(s)

\* all the cart requests
CartOps(S, U, P, Q) ==
    \/ \E s \in S : GetOrCreateCartInsert(s)
    \/ AddOps(S, U, P, Q)
    \/ RemoveOps(S, U, 1..MaxCartItems)
    \/ GetOps(S, U)

\* one user's checkouts, and two of their cart requests at a time: one adds
\* and removes lines, the other looks at the cart
Next ==
    \/ Checkout({"r1"}, {"alice"})
    \/ \E s \in AddRequests : GetOrCreateCartInsert(s)
    \/ AddOps({"a1"}, {"alice"}, Products, {1})
    \/ RemoveOps({"a1"}, {"alice"}, {1})
    \/ GetOps({"a2"}, {"alice"})

Spec == Init /\ [][Next]_vars

\* two users whose carts each hold q units of product 1, variant v (a row of
\* product_variants of product 1), of which n are in stock, q <= n < 2q
InitRace ==
    \E q \in Quantities, n \in 0..MaxStock, v \in Variants :
        /\ q <= n /\ n < 2 * q
        /\ InitState([p \in Products |-> IF p = 1 THEN n ELSE 0],
                     {[id |-> 1, user_id |-> "alice"],
                      [id |-> 2, user_id |-> "bob"]},
                     {[id |-> 1, cart_id |-> 1, product_id |-> 1,
                       quantity |-> q, variant_id |-> v],
                      [id |-> 2, cart_id |-> 2, product_id |-> 1,
                       quantity |-> q, variant_id |-> v]},
                     <<>>,
                     IF v = NULL THEN {} ELSE {1})

\* request r1 is alice's, request r2 is bob's; both also look at their carts
NextRace ==
    \/ Checkout({"r1"}, {"alice"})
    \/ Checkout({"r2"}, {"bob"})
    \/ GetOps({"a1"}, Customers)

SpecRace == InitRace /\ [][NextRace]_vars

\* one user whose cart holds q units of product 1, of which n are in stock
InitSameUser ==
    \E q \in Quantities, n \in 0..MaxStock :
        InitState([p \in Products |-> IF p = 1 THEN n ELSE 0],
                  {[id |-> 1, user_id |-> "alice"]},
                  {[id |-> 1, cart_id |-> 1, product_id |-> 1,
                    quantity |-> q, variant_id |-> NULL]},
                  <<>>, {})

\* both checkout requests are alice's; she also looks at her cart
NextSameUser ==
    \/ Checkout(Requests, {"alice"})
    \/ GetOps({"a1"}, {"alice"})

SpecSameUser == InitSameUser /\ [][NextSameUser]_vars

\* an order of user u for q units of product 1 at the given price
GivenOrder(u, q, price) ==
    [user_id |-> u, address_id |-> 1, total_amount |-> price * q,
     status |-> "pending", payment_status |-> "pending",
     items |-> <<[product_id |-> 1, quantity |-> q, price |-> price,
                  variant_id |-> NULL]>>]

\* k of K orders of alice are in the tables, all pending, each for q of Q
\* units at a price of P
InitGiven(K, Q, P) ==
    \E n \in 0..MaxStock, k \in K, q \in Q, price \in P :
        InitState([p \in Products |-> IF p = 1 THEN n ELSE 0], {}, {},
                  [i \in 1..k |-> GivenOrder("alice", q, price)], {})

InitOrders == InitGiven({1}, {1}, {3})

InitCancel == InitGiven({1, 2}, Quantities, {3})

InitCatalog == InitGiven({1}, {1}, Prices)

\* alice's checkouts and cart requests, the admin's order management
NextAdmin ==
    \/ Checkout({"r1"}, {"alice"})
    \/ \E s \in {"a1"} : GetOrCreateCartInsert(s)
    \/ AddOps({"a1"}, {"alice"}, {1}, {1})
    \/ RemoveOps({"a1"}, {"alice"}, {1})
    \/ StatusOps({"u1"}, {"root"}, 1..MaxOrders, OrderStatuses)

SpecAdmin == InitOrders /\ [][NextAdmin]_vars

\* alice's checkouts, and two requests at a time, of any user, to set an
\* order's status to cancelled or to pending
NextCancel ==
    \/ Checkout({"r1"}, {"alice"})
    \/ StatusOps(AdminRequests, Users, 1..MaxOrders, {"pending", "cancelled"})

SpecCancel == InitCancel /\ [][NextCancel]_vars

\* alice's checkouts and wishlist, the admin's catalogue and order
\* management, two deletions at a time
NextCatalog ==
    \/ Checkout({"r1"}, {"alice"})
    \/ \E pr \in Prices, d \in Discounts : create_product("root", pr, d, MaxStock)
    \/ \E p \in Products, pr \in Prices, d \in Discounts :
           update_product("root", p, pr, d, MaxStock)
    \/ DeleteOps(AdminRequests, {"root"}, Products)
    \/ StatusOps({"u1"}, {"root"}, 1..MaxOrders, {"paid"})
    \/ WishlistOps({"a2"}, {"alice"}, {2})

SpecCatalog == InitCatalog /\ [][NextCatalog]_vars

\* observers come and go while messages are broadcast
NextWs ==
    \/ \E c \in Conns : connect(c)
    \/ \E c \in Conns : PeerGone(c)
    \/ \E c \in Conns : disconnect(c)
    \/ \E b \in Broadcasts :
           broadcast(b, [event |-> "NEW_ORDER", order_id |-> Len(published) + 1])
    \/ \E b \in Broadcasts : BroadcastSend(b)

SpecWs == InitOne /\ [][NextWs]_vars

\* ------------------------------------------------------------------ claims
\* the request r has been answered
Done(r) == co[r].result # "none"

\* the rows of cart_items of all the carts of user u
LinesOf(u) == UNION {CartItemsOf(c.id) : c \in CartsOf(u)}

\* the units of product p on the lines of the orders not cancelled
Sold(os, p) ==
    LET RECURSIVE Sum(_)
        Sum(i) == IF i > Len(os) THEN 0
                  ELSE (IF os[i].status # "cancelled"
                        THEN LineQuantity(os[i].items, p, 1) ELSE 0) + Sum(i + 1)
    IN Sum(1)

\* C1: in every reachable state every product's stock is >= 0.
C1_StockNonNegative == \A p \in DOMAIN products : products[p].stock >= 0

\* C1 witness: a checkout has been answered while a cart line asks for more
\* than is in stock, and the admin has changed an order's status
C1_Witness ==
    /\ co["r1"].result = "AttributeError"
    /\ \E ci \in LinesOf("alice") :
          /\ ci.product_id \in DOMAIN products
          /\ ci.quantity > products[ci.product_id].stock
    /\ response.op = "update_order_status"
    /\ response.result = "ok"

\* C2: when the two checkouts of different users for q units each of a
\* product with q <= n < 2q in stock have both been answered, exactly one has
\* succeeded and created the only order, and the other was answered
\* InsufficientStock.
C2_ExactlyOneSucceeds ==
    (Done("r1") /\ Done("r2"))
    => \E r, t \in Requests :
          /\ r # t
          /\ co[r].result = "ok"
          /\ co[t].result = "InsufficientStock"
          /\ Len(orders) = 1

\* C3: a step in which a checkout is answered with a failure leaves the
\* carts, the cart lines, the orders and the stock as they were.
C3_FailedCheckoutChangesNothing ==
    [][\A r \in Requests :
          (co'[r] # co[r] /\ co'[r].result # "ok")
          => /\ carts' = carts
             /\ cart_items' = cart_items
             /\ orders' = orders
             /\ products' = products]_vars

\* C3 witness: a checkout has failed for a cart with two lines of which the
\* first is in stock and the second is not
C3_Witness ==
    /\ co["r1"].result = "AttributeError"
    /\ \E l1, l2 \in LinesOf("alice") :
          /\ l1.id < l2.id
          /\ l1.quantity <= products[l1.product_id].stock
          /\ l2.quantity > products[l2.product_id].stock

\* C4: no step changes the price stored on a line of an existing order, and no
\* step removes an order or one of its lines.
C4_LinePriceImmutable ==
    [][\A o \in DOMAIN orders :
          /\ o \in DOMAIN orders'
          /\ Len(orders'[o].items) = Len(orders[o].items)
          /\ \A i \in DOMAIN orders[o].items :
                orders'[o].items[i].price = orders[o].items[i].price]_vars

\* C4 witness: with an order in the tables whose status the admin has
\* changed, a checkout has been answered and the admin has asked for new
\* prices of the product on the order's line
C4_Witness ==
    /\ \E o \in DOMAIN orders :
          /\ orders[o].status = "paid"
          /\ orders[o].items[1].product_id = response.product_id
    /\ Done("r1")
    /\ response.op = "update_product"
    /\ response.result = "CompileError"

\* C5: a step that cancels a pending order adds each line's quantity to its
\* product's stock; a cancellation of an order already cancelled is answered
\* InvalidTransition and leaves the stock alone.
C5_CancelRestocks ==
    [][\A o \in DOMAIN orders :
          /\ (orders[o].status = "pending" /\ orders'[o].status = "cancelled")
             => \A p \in DOMAIN products :
                   products'[p].stock
                     = products[p].stock + LineQuantity(orders[o].items, p, 1)
          /\ (/\ orders[o].status = "cancelled"
              /\ response' # response
              /\ response'.op = "update_order_status"
              /\ response'.order_id = o
              /\ response'.new_status = "cancelled"
              /\ role(response'.user) = "admin")
             => /\ response'.result = "InvalidTransition"
                /\ products' = products]_vars

AllowedTransitions ==
    {<<"pending", "paid">>, <<"pending", "cancelled">>,
     <<"paid", "shipped">>, <<"shipped", "delivered">>}

\* C6: every change of an order's status is pending->paid, pending->cancelled,
\* paid->shipped or shipped->delivered.
C6_OnlyAllowedTransitions ==
    [][\A o \in DOMAIN orders :
          orders'[o].status # orders[o].status
          => <<orders[o].status, orders'[o].status>> \in AllowedTransitions]_vars

\* C7: a cancellation asked for by a user who is neither the order's owner nor
\* an admin is answered Forbidden, and changes neither the orders nor the
\* stock.
C7_NonOwnerForbidden ==
    /\ [](/\ response.op = "update_order_status"
          /\ response.order_id \in DOMAIN orders
          /\ role(response.user) # "admin"
          /\ orders[response.order_id].user_id # response.user
          => response.result = "Forbidden")
    /\ [][(/\ response' # response
           /\ response'.op = "update_order_status"
           /\ response'.new_status = "cancelled"
           /\ response'.order_id \in DOMAIN orders
           /\ role(response'.user) # "admin"
           /\ orders[response'.order_id].user_id # response'.user)
          => /\ response'.result = "Forbidden"
             /\ orders' = orders
             /\ products' = products]_vars

\* C7 witness: bob has asked to cancel alice's pending order
C7_Witness ==
    /\ response.op = "update_order_status"
    /\ response.new_status = "cancelled"
    /\ response.user = "bob"
    /\ response.order_id \in DOMAIN orders
    /\ orders[response.order_id].user_id = "alice"
    /\ orders[response.order_id].status = "pending"
    /\ response.result = "Forbidden"

\* C10: when a send to an observer fails, broadcast drops that observer and
\* goes on with the observers after it, and the failure is not raised to the
\* caller of broadcast.
C10_DeliveryFailureSwallowed ==
    [][\A b \in Broadcasts :
          (/\ bc'[b] # bc[b]
           /\ bc[b].sent < Len(active_connections)
           /\ socket[active_connections[bc[b].sent + 1]] = "gone")
          => /\ active_connections[bc[b].sent + 1]
                  \notin Range(active_connections')
             /\ bc'[b].pc = "send"
             /\ bc'[b].result # "SendError"
             /\ SubSeq(active_connections', bc'[b].sent + 1,
                       Len(active_connections'))
                  = SubSeq(active_connections, bc[b].sent + 2,
                           Len(active_connections))]_vars

\* the copies of message m delivered to connection c
Received(c, m) == {i \in DOMAIN delivered[c] : delivered[c][i] = m}

\* C11: when a broadcast returns, every connection that was registered when
\* it began, is still registered and is still open has received the message
\* exactly once, whatever other connections did in the meantime.
C11_SubscribedThroughoutReceivesOnce ==
    [][\A b \in Broadcasts :
          (bc[b].pc = "send" /\ bc'[b].pc = "idle" /\ bc'[b].result = "ok")
          => \A c \in bc[b].audience :
                (c \in Range(active_connections) /\ socket[c] = "open")
                => Cardinality(Received(c, bc[b].message)) = 1]_vars

\* C14: a checkout of a user without a cart, or whose carts hold no line, is
\* answered EmptyCart; no order is created, no stock changed and no message
\* published.
C14_EmptyCartRejected ==
    [][\A r \in Requests :
          (co'[r] # co[r] /\ LinesOf(co'[r].user) = {})
          => /\ co'[r].result = "EmptyCart"
             /\ orders' = orders
             /\ products' = products
             /\ published' = published]_vars

\* C15: a step in which a checkout with an address_id that is no address is
\* answered does not answer with an order, creates no order, changes no stock
\* and leaves the cart lines.
C15_UnknownAddressRejected ==
    [][\A r \in Requests :
          (co'[r] # co[r] /\ co'[r].address_id \notin Addresses)
          => /\ co'[r].result # "ok"
             /\ orders' = orders
             /\ products' = products
             /\ cart_items' = cart_items]_vars

\* C15 witness: a checkout with address_id 2 of a cart whose line is in stock
\* has been answered
C15_Witness ==
    /\ Done("r1")
    /\ co["r1"].address_id = 2
    /\ \E ci \in LinesOf(co["r1"].user) :
          ci.quantity <= products[ci.product_id].stock

\* C16: no step changes, for any product, the sum of its stock and of the
\* units of it on the lines of the orders not cancelled.
C16_StockConserved ==
    [][\A p \in DOMAIN products :
          /\ p \in DOMAIN products'
          /\ products'[p].stock + Sold(orders', p)
               = products[p].stock + Sold(orders, p)]_vars

\* C16 witness: the checkouts of alice and of bob for the same product have
\* both been answered
C16_Witness ==
    /\ Done("r1") /\ Done("r2")
    /\ co["r1"].user = "alice" /\ co["r2"].user = "bob"
    /\ \E l1 \in LinesOf("alice"), l2 \in LinesOf("bob") :
          /\ l1.product_id = l2.product_id
          /\ l1.quantity <= products[l1.product_id].stock

\* C17: when the two checkouts of one user for the same cart contents have
\* both been answered, at most one order exists and one of the two was
\* answered EmptyCart.
C17_AtMostOneOrderPerCart ==
    (Done("r1") /\ Done("r2"))
    => /\ Len(orders) <= 1
       /\ \E r \in Requests : co[r].result = "EmptyCart"
====
